---- MODULE Spec2Model ----
(***************************************************************************)
(* Construction passes of the three application constructs:                *)
(*   ApplicationDynamoDBTable  (Keyed-Table Builder)                       *)
(*   ApplicationRDSCluster     (Relational-Cluster Builder)                *)
(*   ApplicationLoadBalancer   (Load-Balancer Builder)                     *)
(*                                                                         *)
(* A string is a sequence of atoms: one-character strings, or one opaque   *)
(* atom standing for an unresolved attribute token such as                 *)
(* "${aws_iam_role.ReadCapacity_role.arn}".  An optional value is a        *)
(* sequence of length 0 (undefined) or 1.  A declared node is a record     *)
(* [kind, id, props, dependsOn]; nodes holds them in declaration order.    *)
(***************************************************************************)
EXTENDS Integers, Sequences, FiniteSets, TLC

VARIABLES builder, config, pc, nodes, error, logsConfig, secretARN

vars == <<builder, config, pc, nodes, error, logsConfig, secretARN>>

\* ------------------------------------------------------------------ bounds
MaxIndexes == 2

\* --------------------------------------------------------- optional values
None == <<>>
Some(x) == <<x>>
IsSome(o) == Len(o) > 0
Get(o) == o[1]

\* ------------------------------------------------------------ string tools
CharAt(s, i) == IF i >= 0 /\ i < Len(s) THEN <<s[i + 1]>> ELSE <<>>

LowerChar(c) ==
  CASE c = "A" -> "a"
    [] c = "B" -> "b"
    [] c = "P" -> "p"
    [] OTHER -> c

ToLowerCase(s) == [i \in 1..Len(s) |-> LowerChar(s[i])]

Includes(s, sub) ==
  \E i \in 0..(Len(s) - Len(sub)) :
     \A j \in 1..Len(sub) : s[i + j] = sub[j]

DigitChar(d) == <<"0", "1", "2", "3", "4", "5", "6", "7", "8", "9">>[d + 1]

RECURSIVE NumToStr(_)
NumToStr(n) == IF n < 10 THEN <<DigitChar(n)>>
               ELSE NumToStr(n \div 10) \o <<DigitChar(n % 10)>>

HexChar(d) == <<"0", "1", "2", "3", "4", "5", "6", "7", "8", "9",
                "a", "b", "c", "d", "e", "f">>[d + 1]

RECURSIVE ToHex(_)
ToHex(bytes) == IF bytes = <<>> THEN <<>>
                ELSE <<HexChar(Head(bytes) \div 16), HexChar(Head(bytes) % 16)>>
                     \o ToHex(Tail(bytes))

Node(kind, id, props, dependsOn) ==
  [kind |-> kind, id |-> id, props |-> props, dependsOn |-> dependsOn]

\* { ...a, ...b }: the fields of a, overridden and extended by those of b
Spread(a, b) ==
  [k \in (DOMAIN a) \cup (DOMAIN b) |-> IF k \in DOMAIN b THEN b[k] ELSE a[k]]

\* =========================================================================
\*                     ApplicationDynamoDBTable
\* =========================================================================
ReadCapacity == <<"R","e","a","d","C","a","p","a","c","i","t","y">>
WriteCapacity == <<"W","r","i","t","e","C","a","p","a","c","i","t","y">>

PROVISIONED == "PROVISIONED"
ON_DEMAND == "PAY_PER_REQUEST"

ApplicationDynamoDBTableStreamViewType ==
  {"KEYS_ONLY", "NEW_IMAGE", "OLD_IMAGE", "NEW_AND_OLD_IMAGES"}

NoError == "none"
ErrStreamMissing == "you must specify a stream view type if streams are enabled"
ErrStreamInvalid == "you must specify a valid stream view type"
ErrIndexName ==
  "you must specify an indexName when creating an index auto scaling policy"
ErrUndefinedLength == "TypeError: cannot read property 'length' of undefined"

\* literals used in node names and resource ids
L_dynamodb_table == <<"d","y","n","a","m","o","d","b","_","t","a","b","l","e">>
L_table == <<"t","a","b","l","e">>
L_index == <<"i","n","d","e","x">>
L_target == <<"_","t","a","r","g","e","t">>
L_policy == <<"_","p","o","l","i","c","y">>
L_us == <<"_">>
L_tableSlash == <<"t","a","b","l","e","/">>
L_indexSlash == <<"/","i","n","d","e","x","/">>
L_dynamodbColon == <<"d","y","n","a","m","o","d","b",":">>
L_colon == <<":">>
L_Units == <<"U","n","i","t","s">>
L_DynamoDB == <<"D","y","n","a","m","o","D","B">>
L_Utilization == <<"U","t","i","l","i","z","a","t","i","o","n">>
L_autoscaling_policy ==
  <<"_","a","u","t","o","s","c","a","l","i","n","g","_","p","o","l","i","c","y">>
L_policy_document ==
  <<"_","p","o","l","i","c","y","_","d","o","c","u","m","e","n","t">>
L_assume_role_policy_document ==
  <<"_","a","s","s","u","m","e","_","r","o","l","e">> \o L_policy_document
L_role == <<"_","r","o","l","e">>
L_role_attachment == L_role \o <<"_","a","t","t","a","c","h","m","e","n","t">>
L_AutoScalingPolicy ==
  <<"-","A","u","t","o","S","c","a","l","i","n","g","P","o","l","i","c","y">>
L_AutoScalingRole ==
  <<"-","A","u","t","o","S","c","a","l","i","n","g","R","o","l","e">>

\* attribute tokens of declared nodes
TableNameToken == <<"${aws_dynamodb_table.dynamodb_table.name}">>
TableArnToken == <<"${aws_dynamodb_table.dynamodb_table.arn}">>
RoleArnToken(capacityType) ==
  IF capacityType = ReadCapacity
    THEN <<"${aws_iam_role.ReadCapacity_role.arn}">>
    ELSE <<"${aws_iam_role.WriteCapacity_role.arn}">>
RoleNameToken(capacityType) ==
  IF capacityType = ReadCapacity
    THEN <<"${aws_iam_role.ReadCapacity_role.name}">>
    ELSE <<"${aws_iam_role.WriteCapacity_role.name}">>
PolicyArnToken(capacityType) ==
  IF capacityType = ReadCapacity
    THEN <<"${aws_iam_policy.ReadCapacity_autoscaling_policy.arn}">>
    ELSE <<"${aws_iam_policy.WriteCapacity_autoscaling_policy.arn}">>
PolicyDocumentJsonToken(capacityType) ==
  IF capacityType = ReadCapacity
    THEN <<"${data.aws_iam_policy_document.ReadCapacity_policy_document.json}">>
    ELSE <<"${data.aws_iam_policy_document.WriteCapacity_policy_document.json}">>
AssumeRoleDocumentJsonToken(capacityType) ==
  IF capacityType = ReadCapacity
    THEN <<"${data.aws_iam_policy_document.ReadCapacity_assume_role_policy_document.json}">>
    ELSE <<"${data.aws_iam_policy_document.WriteCapacity_assume_role_policy_document.json}">>

\* the table's generated unique id: construct path plus a path hash
FriendlyUniqueId(name) ==
  name \o L_us \o L_dynamodb_table \o L_us \o <<"<pathhash>">>

\* ------------------------------------------------------------ table inputs
TableNames == { <<"t">> }
TablePrefixes == { <<"p">> }
StreamViewTypeInputs ==
  {None, Some(""), Some("BOGUS")}
    \cup {Some(v) : v \in ApplicationDynamoDBTableStreamViewType}
CapacityModeInputs == {None, Some(PROVISIONED), Some(ON_DEMAND)}
BillingModeInputs == {None, Some("PROVISIONED"), Some("PAY_PER_REQUEST")}
ReadCapacityInputs == {None, Some([tracking |-> 70, max |-> 10, min |-> 1])}
WriteCapacityInputs == {None, Some([tracking |-> 60, max |-> 20, min |-> 6])}
PreventDestroyInputs == {None, Some(TRUE), Some(FALSE)}
IndexPool ==
  { [name |-> <<>>, readCapacity |-> 2, writeCapacity |-> 3],
    [name |-> <<"a">>, readCapacity |-> 2, writeCapacity |-> 3],
    [name |-> <<"b">>, readCapacity |-> 4, writeCapacity |-> 5],
    [name |-> ReadCapacity \o L_role, readCapacity |-> 4, writeCapacity |-> 5] }
IndexLists == UNION { [1..n -> IndexPool] : n \in 0..MaxIndexes }
GlobalSecondaryIndexInputs == {None} \cup {Some(l) : l \in IndexLists}

TableConfigs ==
  [ name : TableNames,
    prefix : TablePrefixes,
    tableConfig : [ billingMode : BillingModeInputs,
                    streamEnabled : BOOLEAN,
                    streamViewType : StreamViewTypeInputs,
                    globalSecondaryIndex : GlobalSecondaryIndexInputs ],
    readCapacity : ReadCapacityInputs,
    writeCapacity : WriteCapacityInputs,
    capacityMode : CapacityModeInputs,
    preventDestroyTable : PreventDestroyInputs ]

\* --------------------------------------------------- validateStreamConfig
\* variant: the membership test against the enumeration is dropped
M_IsStreamViewTypeValue(v) == TRUE

IsStreamViewTypeValue(v) == v \in ApplicationDynamoDBTableStreamViewType

\* a missing view type and the empty string are both falsy
StreamViewTypeMissing(tableConfig) ==
  \/ ~IsSome(tableConfig.streamViewType)
  \/ Get(tableConfig.streamViewType) = ""

ValidateStreamConfig(tableConfig) ==
  IF tableConfig.streamEnabled
    THEN IF StreamViewTypeMissing(tableConfig)
           THEN ErrStreamMissing
           ELSE IF ~IsStreamViewTypeValue(Get(tableConfig.streamViewType))
                  THEN ErrStreamInvalid
                  ELSE NoError
    ELSE NoError

\* ------------------------------------------------------------ billing mode
\* variant: a billing mode carried in the table config wins
M_BillingMode(cfg) ==
  IF IsSome(cfg.tableConfig.billingMode)
    THEN Get(cfg.tableConfig.billingMode)
    ELSE IF IsSome(cfg.capacityMode) THEN Get(cfg.capacityMode) ELSE PROVISIONED

BillingMode(cfg) ==
  IF IsSome(cfg.capacityMode) THEN Get(cfg.capacityMode) ELSE PROVISIONED

\* the table node: the spread of tableConfig, then the fields set here
DynamodbTable(cfg) ==
  Node("aws_dynamodb_table", L_dynamodb_table,
       Spread(cfg.tableConfig,
              [ billingMode |-> Some(BillingMode(cfg)),
                name |-> cfg.prefix,
                ignoreChanges |-> <<"read_capacity", "write_capacity">>,
                preventDestroy |-> (cfg.preventDestroyTable # Some(FALSE)) ]),
       <<>>)

\* --------------------------------------------------- createAutoScalingRole
CreateAutoScalingRole(capacityType, prefix) ==
  << Node("data.aws_iam_policy_document", capacityType \o L_policy_document,
          [ statement |->
              << [ effect |-> "Allow",
                   actions |-> << "application-autoscaling:*",
                                  "cloudwatch:DescribeAlarms",
                                  "cloudwatch:PutMetricAlarm" >>,
                   resources |-> << <<"*">> >> ],
                 [ effect |-> "Allow",
                   actions |-> << "dynamodb:DescribeTable",
                                  "dynamodb:UpdateTable" >>,
                   resources |-> << TableArnToken, TableArnToken \o <<"*">> >> ]
              >> ],
          <<>>),
     Node("aws_iam_policy", capacityType \o L_autoscaling_policy,
          [ name |-> prefix \o <<"-">> \o capacityType \o L_AutoScalingPolicy,
            policy |-> PolicyDocumentJsonToken(capacityType) ],
          <<>>),
     Node("data.aws_iam_policy_document",
          capacityType \o L_assume_role_policy_document,
          [ statement |->
              << [ effect |-> "Allow",
                   actions |-> << "sts:AssumeRole" >>,
                   principals |->
                     << [ type |-> "Service",
                          identifiers |->
                            << "application-autoscaling.amazonaws.com" >> ] >> ]
              >> ],
          <<>>),
     Node("aws_iam_role", capacityType \o L_role,
          [ name |-> prefix \o <<"-">> \o capacityType \o L_AutoScalingRole,
            assumeRolePolicy |-> AssumeRoleDocumentJsonToken(capacityType) ],
          <<>>),
     Node("aws_iam_role_policy_attachment", capacityType \o L_role_attachment,
          [ policyArn |-> PolicyArnToken(capacityType),
            role |-> RoleNameToken(capacityType) ],
          << capacityType \o L_role, capacityType \o L_autoscaling_policy >>)
  >>

\* ------------------------------------------------- createAutoScalingPolicy
\* indexName is an optional string; the empty string is falsy
HasIndexName(indexName) == IsSome(indexName) /\ Get(indexName) # <<>>

\* variant: the index suffix is never appended
M_ResourceId(policyTarget, indexName) == L_tableSlash \o TableNameToken

ResourceId(policyTarget, indexName) ==
  IF policyTarget = L_index
    THEN L_tableSlash \o TableNameToken \o L_indexSlash \o Get(indexName)
    ELSE L_tableSlash \o TableNameToken

\* variant: the capacity type is left out of the name
M_ConstructPrefix(name, policyTarget, capacityType, indexName) ==
  (IF HasIndexName(indexName) THEN Get(indexName) ELSE FriendlyUniqueId(name))
    \o L_us \o policyTarget

ConstructPrefix(name, policyTarget, capacityType, indexName) ==
  (IF HasIndexName(indexName) THEN Get(indexName) ELSE FriendlyUniqueId(name))
    \o L_us \o capacityType \o L_us \o policyTarget

AppautoscalingTarget(name, roleArn, policyTarget, capacityType, minCapacity, maxCapacity, indexName) ==
  Node("aws_appautoscaling_target",
       ConstructPrefix(name, policyTarget, capacityType, indexName) \o L_target,
       [ maxCapacity |-> maxCapacity,
         minCapacity |-> minCapacity,
         resourceId |-> ResourceId(policyTarget, indexName),
         scalableDimension |->
           L_dynamodbColon \o policyTarget \o L_colon \o capacityType \o L_Units,
         roleArn |-> roleArn,
         serviceNamespace |-> "dynamodb" ],
       << L_dynamodb_table >>)

AppautoscalingPolicy(name, policyTarget, capacityType, tracking, indexName, targetTracking) ==
  Node("aws_appautoscaling_policy",
       ConstructPrefix(name, policyTarget, capacityType, indexName) \o L_policy,
       [ name |-> L_DynamoDB \o capacityType \o L_Utilization \o L_colon
                    \o targetTracking.props.resourceId,
         policyType |-> "TargetTrackingScaling",
         resourceId |-> targetTracking.props.resourceId,
         scalableDimension |-> targetTracking.props.scalableDimension,
         serviceNamespace |-> targetTracking.props.serviceNamespace,
         predefinedMetricType |-> L_DynamoDB \o capacityType \o L_Utilization,
         targetValue |-> tracking ],
       << targetTracking.id, L_dynamodb_table >>)

CreateAutoScalingPolicy(name, roleArn, policyTarget, capacityType, minCapacity, maxCapacity, tracking, indexName) ==
  IF policyTarget = L_index /\ ~HasIndexName(indexName)
    THEN [nodes |-> <<>>, error |-> ErrIndexName]
    ELSE LET targetTracking ==
               AppautoscalingTarget(name, roleArn, policyTarget, capacityType,
                                    minCapacity, maxCapacity, indexName)
         IN [ nodes |-> << targetTracking,
                           AppautoscalingPolicy(name, policyTarget, capacityType,
                                                tracking, indexName,
                                                targetTracking) >>,
              error |-> NoError ]

\* -------------------------------------------------------- setupAutoscaling
\* variant: the read capacity is used for both dimensions
M_IndexMinCapacity(capacityType, gsIndex) == gsIndex.readCapacity

IndexMinCapacity(capacityType, gsIndex) ==
  IF capacityType = ReadCapacity
    THEN gsIndex.readCapacity
    ELSE gsIndex.writeCapacity

\* the forEach over the index list; stops at the first throw
RECURSIVE IndexPolicies(_, _, _, _, _)
IndexPolicies(name, roleArn, capacityType, capacity, indexes) ==
  IF indexes = <<>>
    THEN [nodes |-> <<>>, error |-> NoError]
    ELSE LET gsIndex == Head(indexes)
             one == CreateAutoScalingPolicy(
                      name, roleArn, L_index, capacityType,
                      IndexMinCapacity(capacityType, gsIndex),
                      capacity.max, capacity.tracking, Some(gsIndex.name))
         IN IF one.error # NoError
              THEN one
              ELSE LET rest == IndexPolicies(name, roleArn, capacityType,
                                             capacity, Tail(indexes))
                   IN [ nodes |-> one.nodes \o rest.nodes,
                        error |-> rest.error ]

SetupAutoscaling(name, prefix, capacity, capacityType, globalSecondaryIndexes) ==
  LET roleNodes == CreateAutoScalingRole(capacityType, prefix)
      roleArn == RoleArnToken(capacityType)
      tablePolicy == CreateAutoScalingPolicy(
                       name, roleArn, L_table, capacityType,
                       capacity.min, capacity.max, capacity.tracking, None)
      declared == roleNodes \o tablePolicy.nodes
  IN IF ~IsSome(globalSecondaryIndexes)
       THEN [nodes |-> declared, error |-> ErrUndefinedLength]
       ELSE LET idx == IndexPolicies(name, roleArn, capacityType, capacity,
                                     Get(globalSecondaryIndexes))
            IN [nodes |-> declared \o idx.nodes, error |-> idx.error]

\* ------------------------------------------------------ constructor steps
\* variant: the table is declared before the stream config is validated
M_TableValidateStream ==
  /\ builder = "table" /\ pc = "validateStreamConfig"
  /\ LET e == ValidateStreamConfig(config.tableConfig)
     IN /\ error' = e
        /\ nodes' = Append(nodes, DynamodbTable(config))
        /\ pc' = IF e = NoError THEN "readCapacity" ELSE "failed"
  /\ UNCHANGED <<builder, config, logsConfig, secretARN>>

TableValidateStream ==
  /\ builder = "table" /\ pc = "validateStreamConfig"
  /\ LET e == ValidateStreamConfig(config.tableConfig)
     IN /\ error' = e
        /\ pc' = IF e = NoError THEN "declareTable" ELSE "failed"
  /\ UNCHANGED <<builder, config, nodes, logsConfig, secretARN>>

TableDeclareTable ==
  /\ builder = "table" /\ pc = "declareTable"
  /\ nodes' = Append(nodes, DynamodbTable(config))
  /\ pc' = "readCapacity"
  /\ UNCHANGED <<builder, config, error, logsConfig, secretARN>>

TableAutoscaling(capacityType, capacity, here, next) ==
  /\ builder = "table" /\ pc = here
  /\ IF IsSome(capacity)
       THEN LET r == SetupAutoscaling(config.name, config.prefix, Get(capacity),
                                      capacityType,
                                      config.tableConfig.globalSecondaryIndex)
            IN /\ nodes' = nodes \o r.nodes
               /\ error' = r.error
               /\ pc' = IF r.error = NoError THEN next ELSE "failed"
       ELSE /\ pc' = next
            /\ UNCHANGED <<nodes, error>>
  /\ UNCHANGED <<builder, config, logsConfig, secretARN>>

TableReadAutoscaling ==
  TableAutoscaling(ReadCapacity, config.readCapacity, "readCapacity",
                   "writeCapacity")

TableWriteAutoscaling ==
  TableAutoscaling(WriteCapacity, config.writeCapacity, "writeCapacity", "done")

\* =========================================================================
\*                       ApplicationRDSCluster
\* =========================================================================
L_vpc == <<"v","p","c">>
L_rds_security_group == <<"r","d","s","_","s","e","c","u","r","i","t","y",
    "_","g","r","o","u","p">>
L_rds_subnet_group == <<"r","d","s","_","s","u","b","n","e","t","_","g","r",
    "o","u","p">>
L_rds_cluster == <<"r","d","s","_","c","l","u","s","t","e","r">>
L_rds_secret == <<"r","d","s","_","s","e","c","r","e","t">>
L_rds_secret_version == <<"r","d","s","_","s","e","c","r","e","t","_","v",
    "e","r","s","i","o","n">>
L_SecretFor == <<"S","e","c","r","e","t"," ","F","o","r"," ">>
L_slash == <<"/">>
L_mysqlScheme == <<"m","y","s","q","l",":","/","/">>
L_postgresql == <<"p","o","s","t","g","r","e","s","q","l">>
E_aurora == <<"a","u","r","o","r","a">>
E_aurora_mysql == <<"a","u","r","o","r","a","-","m","y","s","q","l">>
E_aurora_postgresql == <<"a","u","r","o","r","a","-","p","o","s","t","g",
    "r","e","s","q","l">>
K_engine == <<"e","n","g","i","n","e">>
K_host == <<"h","o","s","t">>
K_username == <<"u","s","e","r","n","a","m","e">>
K_password == <<"p","a","s","s","w","o","r","d">>
K_dbname == <<"d","b","n","a","m","e">>
K_port == <<"p","o","r","t">>
K_database_url == <<"d","a","t","a","b","a","s","e","_","u","r","l">>

\* attribute tokens of declared nodes
VpcIdToken == <<"${data.aws_vpc.vpc.id}">>
VpcCidrBlockToken == <<"${data.aws_vpc.vpc.cidr_block}">>
RdsSecurityGroupIdToken == <<"${aws_security_group.rds_security_group.id}">>
SubnetGroupNameToken == <<"${aws_db_subnet_group.rds_subnet_group.name}">>
ClusterIdentifierToken == <<"${aws_rds_cluster.rds_cluster.cluster_identifier}">>
ClusterEngineToken == <<"${aws_rds_cluster.rds_cluster.engine}">>
ClusterEndpointToken == <<"${aws_rds_cluster.rds_cluster.endpoint}">>
ClusterMasterUsernameToken == <<"${aws_rds_cluster.rds_cluster.master_username}">>
ClusterMasterPasswordToken == <<"${aws_rds_cluster.rds_cluster.master_password}">>
ClusterDatabaseNameToken == <<"${aws_rds_cluster.rds_cluster.database_name}">>
SecretIdToken == <<"${aws_secretsmanager_secret.rds_secret.id}">>
SecretArnToken == <<"${aws_secretsmanager_secret.rds_secret.arn}">>

\* ---------------------------------------------------------- cluster inputs
ClusterPrefixes == { <<"A","p","p">> }
EngineInputs ==
  {None, Some(E_aurora), Some(E_aurora_mysql), Some(E_aurora_postgresql)}
MasterPasswordInputs == {None, Some(<<"p","w">>)}
PortInputs == {None, Some(5433)}
SubnetIdInputs == { << <<"s","1">>, <<"s","2">> >> }
\* outcomes of crypto.randomBytes(8)
RandomBytesPool == { [i \in 1..8 |-> 0], [i \in 1..8 |-> 171],
                     <<1, 35, 69, 103, 137, 171, 205, 239>> }

ClusterConfigs ==
  [ prefix : ClusterPrefixes,
    vpcId : { <<"v","1">> },
    subnetIds : SubnetIdInputs,
    rdsConfig : [ engine : EngineInputs,
                  masterUsername : { <<"u">> },
                  masterPassword : MasterPasswordInputs,
                  databaseName : { <<"d","b">> },
                  port : PortInputs ] ]

\* ----------------------------------------------------------- the rds port
\* variant: the engine is not consulted
M_RdsPort(engine) == 3306

RdsPort(engine) ==
  IF IsSome(engine) /\ Includes(Get(engine), L_postgresql) THEN 5432 ELSE 3306

DataAwsVpc(cfg) ==
  Node("data.aws_vpc", L_vpc,
       [ filter |-> << [name |-> "vpc-id", values |-> <<cfg.vpcId>>] >> ],
       <<>>)

RdsSecurityGroup(cfg, rdsPort) ==
  Node("aws_security_group", L_rds_security_group,
       [ namePrefix |-> cfg.prefix,
         description |-> "Managed by Terraform",
         vpcId |-> VpcIdToken,
         ingress |-> << [ fromPort |-> rdsPort,
                          toPort |-> rdsPort,
                          protocol |-> "tcp",
                          cidrBlocks |-> << VpcCidrBlockToken >>,
                          description |-> None,
                          ipv6CidrBlocks |-> None,
                          prefixListIds |-> None,
                          securityGroups |-> None ] >>,
         egress |-> << [ fromPort |-> 0,
                         toPort |-> 0,
                         protocol |-> "-1",
                         cidrBlocks |-> << <<"0",".","0",".","0",".","0","/","0">> >>,
                         description |-> "required" ] >> ],
       <<>>)

DbSubnetGroup(cfg) ==
  Node("aws_db_subnet_group", L_rds_subnet_group,
       [ namePrefix |-> ToLowerCase(cfg.prefix),
         subnetIds |-> cfg.subnetIds ],
       <<>>)

\* the cluster node: the spread of rdsConfig, then the fields set here
RdsCluster(cfg, masterPassword) ==
  Node("aws_rds_cluster", L_rds_cluster,
       Spread(cfg.rdsConfig,
              [ clusterIdentifierPrefix |-> ToLowerCase(cfg.prefix),
                copyTagsToSnapshot |-> TRUE,
                masterPassword |-> Some(masterPassword),
                vpcSecurityGroupIds |-> << RdsSecurityGroupIdToken >>,
                dbSubnetGroupName |-> SubnetGroupNameToken,
                ignoreChanges |-> <<"master_username", "master_password">> ]),
       <<>>)

\* ---------------------------------------------------------- createRdsSecret
\* variant: any configured engine gets the url
M_HasDatabaseUrl(engine) == IsSome(engine)

HasDatabaseUrl(engine) == IsSome(engine) /\ Get(engine) = E_aurora_mysql

DatabaseUrl(rdsPort) ==
  L_mysqlScheme \o ClusterMasterUsernameToken \o L_colon
    \o ClusterMasterPasswordToken \o <<"@">> \o ClusterEndpointToken \o L_colon
    \o NumToStr(rdsPort) \o L_slash \o ClusterDatabaseNameToken

\* secretValues: the entries of the object, in insertion order
SecretValues(rdsPort, engine) ==
  << [key |-> K_engine, str |-> TRUE, value |-> ClusterEngineToken],
     [key |-> K_host, str |-> TRUE, value |-> ClusterEndpointToken],
     [key |-> K_username, str |-> TRUE, value |-> ClusterMasterUsernameToken],
     [key |-> K_password, str |-> TRUE, value |-> ClusterMasterPasswordToken],
     [key |-> K_dbname, str |-> TRUE, value |-> ClusterDatabaseNameToken],
     [key |-> K_port, str |-> FALSE, value |-> NumToStr(rdsPort)] >>
  \o (IF HasDatabaseUrl(engine)
        THEN << [key |-> K_database_url, str |-> TRUE,
                 value |-> DatabaseUrl(rdsPort)] >>
        ELSE <<>>)

\* JSON.stringify of an object of strings and numbers
JsonEntry(e) ==
  <<"\"">> \o e.key \o <<"\"">> \o L_colon
    \o (IF e.str THEN <<"\"">> \o e.value \o <<"\"">> ELSE e.value)

RECURSIVE JsonEntries(_)
JsonEntries(es) ==
  IF es = <<>> THEN <<>>
  ELSE IF Len(es) = 1 THEN JsonEntry(es[1])
  ELSE JsonEntry(es[1]) \o <<",">> \o JsonEntries(Tail(es))

JsonStringify(es) == <<"{">> \o JsonEntries(es) \o <<"}">>

RdsSecret(prefix) ==
  Node("aws_secretsmanager_secret", L_rds_secret,
       [ description |-> L_SecretFor \o ClusterIdentifierToken,
         name |-> prefix \o L_slash \o ClusterIdentifierToken ],
       << L_rds_cluster >>)

RdsSecretVersion(rdsPort, engine) ==
  Node("aws_secretsmanager_secret_version", L_rds_secret_version,
       [ secretId |-> SecretIdToken,
         secretString |-> JsonStringify(SecretValues(rdsPort, engine)) ],
       << L_rds_secret >>)

\* variant: the secret version is declared before the secret it depends on
M_CreateRdsSecret(rdsPort, prefix, engine) ==
  << RdsSecretVersion(rdsPort, engine), RdsSecret(prefix) >>

CreateRdsSecret(rdsPort, prefix, engine) ==
  << RdsSecret(prefix), RdsSecretVersion(rdsPort, engine) >>

\* ------------------------------------------------------ constructor steps
ClusterStep(here, next, newNodes) ==
  /\ builder = "cluster" /\ pc = here
  /\ nodes' = nodes \o newNodes
  /\ pc' = next
  /\ UNCHANGED <<builder, config, error, logsConfig>>

ClusterDeclareVpc ==
  /\ ClusterStep("vpc", "securityGroup", << DataAwsVpc(config) >>)
  /\ UNCHANGED secretARN

ClusterDeclareSecurityGroup ==
  /\ ClusterStep("securityGroup", "subnetGroup",
                 << RdsSecurityGroup(config, RdsPort(config.rdsConfig.engine)) >>)
  /\ UNCHANGED secretARN

ClusterDeclareSubnetGroup ==
  /\ ClusterStep("subnetGroup", "rdsCluster", << DbSubnetGroup(config) >>)
  /\ UNCHANGED secretARN

ClusterDeclareCluster ==
  /\ builder = "cluster" /\ pc = "rdsCluster"
  /\ IF IsSome(config.rdsConfig.masterPassword)
       THEN ClusterStep("rdsCluster", "rdsSecret",
              << RdsCluster(config, Get(config.rdsConfig.masterPassword)) >>)
       ELSE \E bytes \in RandomBytesPool :
              ClusterStep("rdsCluster", "rdsSecret",
                          << RdsCluster(config, ToHex(bytes)) >>)
  /\ UNCHANGED secretARN

ClusterCreateSecret ==
  /\ ClusterStep("rdsSecret", "done",
                 CreateRdsSecret(RdsPort(config.rdsConfig.engine),
                                 config.prefix, config.rdsConfig.engine))
  /\ secretARN' = Some(SecretArnToken)

\* =========================================================================
\*                      ApplicationLoadBalancer
\* =========================================================================
L_alb_security_group == <<"a","l","b","_","s","e","c","u","r","i","t","y",
    "_","g","r","o","u","p">>
L_alb == <<"a","l","b">>
L_log_bucket == <<"l","o","g","-","b","u","c","k","e","t">>
L_elb_service_account == <<"e","l","b","-","s","e","r","v","i","c","e","-",
    "a","c","c","o","u","n","t">>
L_iam_log_bucket_policy_document == <<"i","a","m","-","l","o","g","-","b",
    "u","c","k","e","t","-","p","o","l","i","c","y","-","d","o","c","u","m",
    "e","n","t">>
L_log_bucket_policy == <<"l","o","g","-","b","u","c","k","e","t","-","p",
    "o","l","i","c","y">>
L_serverLogsSlash == <<"s","e","r","v","e","r","-","l","o","g","s","/">>
L_slashAlb == <<"/","a","l","b">>
L_SecurityGroupName == <<"-","H","T","T","P","/","S"," ","S","e","c","u",
    "r","i","t","y"," ","G","r","o","u","p">>
L_arnIam == <<"a","r","n",":","a","w","s",":","i","a","m",":",":">>
L_colonRoot == <<":","r","o","o","t">>
L_arnS3 == <<"a","r","n",":","a","w","s",":","s","3",":",":",":">>
L_slashStar == <<"/","*">>
L_anywhere == <<"0",".","0",".","0",".","0","/","0">>

ErrLogsPrefix == "Logs prefix cannot start or end with '/'"
ErrNoBucket ==
  "If you are configuring access logs you need to define either an existing bucket or a new one to store the logs"

\* attribute tokens of declared nodes
AlbSecurityGroupIdToken == <<"${aws_security_group.alb_security_group.id}">>
ExistingBucketToken == <<"${data.aws_s3_bucket.log-bucket.bucket}">>
NewBucketToken == <<"${aws_s3_bucket.log-bucket.bucket}">>
ElbServiceAccountIdToken == <<"${data.aws_elb_service_account.elb-service-account.id}">>
LogBucketPolicyDocumentJsonToken ==
  <<"${data.aws_iam_policy_document.iam-log-bucket-policy-document.json}">>

\* ------------------------------------------------------------- alb inputs
AlbPrefixes == { <<"A","p","p">>, <<"/","B">>, <<"a","/">> }
InternalInputs == {None, Some(TRUE), Some(FALSE)}
ExistingBucketInputs == {None, Some(<<"o","l","d">>)}
BucketInputs == {None, Some(<<"n","e","w">>)}
LogsPrefixInputs ==
  {None} \cup
  { Some(p) : p \in { <<>>, <<"/">>, <<"l">>, <<"/","l">>, <<"l","/">>,
                      <<"l","/","p">>, <<"/","l","/">>, <<"/","/">> } }
AccessLogsInputs ==
  {None} \cup
  { Some(a) : a \in [ existingBucket : ExistingBucketInputs,
                      bucket : BucketInputs,
                      prefix : LogsPrefixInputs ] }

AlbConfigs ==
  [ prefix : AlbPrefixes,
    alb6CharacterPrefix : { <<"A","P","P","L","B","1">> },
    vpcId : { <<"v","1">> },
    subnetIds : SubnetIdInputs,
    internal : InternalInputs,
    accessLogs : AccessLogsInputs ]

AlbSecurityGroup(cfg) ==
  Node("aws_security_group", L_alb_security_group,
       [ namePrefix |-> cfg.prefix \o L_SecurityGroupName,
         description |-> "External security group  (Managed by Terraform)",
         vpcId |-> cfg.vpcId,
         ingress |-> << [ fromPort |-> 443, toPort |-> 443, protocol |-> "TCP",
                          cidrBlocks |-> << L_anywhere >> ],
                        [ fromPort |-> 80, toPort |-> 80, protocol |-> "TCP",
                          cidrBlocks |-> << L_anywhere >> ] >>,
         egress |-> << [ fromPort |-> 0, toPort |-> 0, protocol |-> "-1",
                         cidrBlocks |-> << L_anywhere >>,
                         description |-> "required" ] >>,
         tagName |-> cfg.prefix \o L_SecurityGroupName,
         createBeforeDestroy |-> TRUE ],
       <<>>)

\* ------------------------------------------------------- the logs prefix
DefaultPrefix(cfg) == L_serverLogsSlash \o ToLowerCase(cfg.prefix) \o L_slashAlb

LogsPrefix(cfg) ==
  IF ~IsSome(Get(cfg.accessLogs).prefix)
    THEN DefaultPrefix(cfg)
    ELSE Get(Get(cfg.accessLogs).prefix)

\* variant: only the first character is examined
M_PrefixRejected(prefix) == CharAt(prefix, 0) = L_slash

PrefixRejected(prefix) ==
  \/ CharAt(prefix, Len(prefix) - 1) = L_slash
  \/ CharAt(prefix, 0) = L_slash

\* -------------------------------------------------------- getOrCreateBucket
\* the lookup of an existing bucket
LookupBucket(accessLogs) ==
  [ nodes |-> << Node("data.aws_s3_bucket", L_log_bucket,
                      [bucket |-> Get(accessLogs.existingBucket)], <<>>) >>,
    error |-> NoError,
    bucket |-> Some(ExistingBucketToken) ]

\* a new bucket with the policy that lets the load balancer write to it
CreateBucket(accessLogs) ==
  [ nodes |->
      << Node("aws_s3_bucket", L_log_bucket,
              [bucket |-> Get(accessLogs.bucket)], <<>>),
         Node("data.aws_elb_service_account", L_elb_service_account,
              [provider |-> None], <<>>),
         Node("data.aws_iam_policy_document", L_iam_log_bucket_policy_document,
              [ statement |->
                  << [ effect |-> "Allow",
                       principals |->
                         << [ type |-> "AWS",
                              identifiers |->
                                << L_arnIam \o ElbServiceAccountIdToken
                                     \o L_colonRoot >> ] >>,
                       actions |-> << "s3:PutObject" >>,
                       resources |->
                         << L_arnS3 \o NewBucketToken \o L_slashStar >> ] >> ],
              <<>>),
         Node("aws_s3_bucket_policy", L_log_bucket_policy,
              [ bucket |-> NewBucketToken,
                policy |-> LogBucketPolicyDocumentJsonToken ],
              <<>>) >>,
    error |-> NoError,
    bucket |-> Some(NewBucketToken) ]

\* variant: the bucket to create is looked at before the existing one
M_GetOrCreateBucket(accessLogs) ==
  IF ~IsSome(accessLogs.existingBucket) /\ ~IsSome(accessLogs.bucket)
    THEN [nodes |-> <<>>, error |-> ErrNoBucket, bucket |-> None]
  ELSE IF IsSome(accessLogs.bucket)
    THEN CreateBucket(accessLogs)
    ELSE LookupBucket(accessLogs)

GetOrCreateBucket(accessLogs) ==
  IF ~IsSome(accessLogs.existingBucket) /\ ~IsSome(accessLogs.bucket)
    THEN [nodes |-> <<>>, error |-> ErrNoBucket, bucket |-> None]
  ELSE IF IsSome(accessLogs.existingBucket)
    THEN LookupBucket(accessLogs)
    ELSE CreateBucket(accessLogs)

Alb(cfg, logs) ==
  Node("aws_alb", L_alb,
       [ namePrefix |-> cfg.alb6CharacterPrefix,
         securityGroups |-> << AlbSecurityGroupIdToken >>,
         internal |-> (IF IsSome(cfg.internal) THEN Get(cfg.internal) ELSE FALSE),
         subnets |-> cfg.subnetIds,
         accessLogs |-> logs ],
       <<>>)

\* ------------------------------------------------------ constructor steps
AlbDeclareSecurityGroup ==
  /\ builder = "alb" /\ pc = "securityGroup"
  /\ nodes' = Append(nodes, AlbSecurityGroup(config))
  /\ pc' = "accessLogs"
  /\ UNCHANGED <<builder, config, error, logsConfig, secretARN>>

AlbAccessLogs ==
  /\ builder = "alb" /\ pc = "accessLogs"
  /\ IF ~IsSome(config.accessLogs)
       THEN /\ pc' = "alb"
            /\ UNCHANGED <<nodes, error, logsConfig>>
       ELSE LET prefix == LogsPrefix(config)
                r == GetOrCreateBucket(Get(config.accessLogs))
            IN IF PrefixRejected(prefix)
                 THEN /\ error' = ErrLogsPrefix
                      /\ pc' = "failed"
                      /\ UNCHANGED <<nodes, logsConfig>>
                 ELSE /\ nodes' = nodes \o r.nodes
                      /\ error' = r.error
                      /\ IF r.error = NoError
                           THEN /\ logsConfig' = Some([ bucket |-> Get(r.bucket),
                                                        enabled |-> TRUE,
                                                        prefix |-> prefix ])
                                /\ pc' = "alb"
                           ELSE /\ pc' = "failed"
                                /\ UNCHANGED logsConfig
  /\ UNCHANGED <<builder, config, secretARN>>

AlbDeclareAlb ==
  /\ builder = "alb" /\ pc = "alb"
  /\ nodes' = Append(nodes, Alb(config, logsConfig))
  /\ pc' = "done"
  /\ UNCHANGED <<builder, config, error, logsConfig, secretARN>>

\* =========================================================================
InitTable ==
  /\ builder = "table"
  /\ config \in TableConfigs
  /\ pc = "validateStreamConfig"

InitCluster ==
  /\ builder = "cluster"
  /\ config \in ClusterConfigs
  /\ pc = "vpc"

InitAlb ==
  /\ builder = "alb"
  /\ config \in AlbConfigs
  /\ pc = "securityGroup"

Init ==
  /\ (InitTable \/ InitCluster \/ InitAlb)
  /\ nodes = <<>>
  /\ error = NoError
  /\ logsConfig = None
  /\ secretARN = None

Next ==
  \/ TableValidateStream
  \/ TableDeclareTable
  \/ TableReadAutoscaling
  \/ TableWriteAutoscaling
  \/ ClusterDeclareVpc
  \/ ClusterDeclareSecurityGroup
  \/ ClusterDeclareSubnetGroup
  \/ ClusterDeclareCluster
  \/ ClusterCreateSecret
  \/ AlbDeclareSecurityGroup
  \/ AlbAccessLogs
  \/ AlbDeclareAlb

Spec == Init /\ [][Next]_vars

\* =========================================================================
\*                              Properties
\* =========================================================================
StreamErrors == {ErrStreamMissing, ErrStreamInvalid}
Finished == pc \in {"done", "failed"}
KindCount(kind) == Cardinality({i \in 1..Len(nodes) : nodes[i].kind = kind})

StreamFlag == config.tableConfig.streamEnabled
ViewTypeListed ==
  /\ IsSome(config.tableConfig.streamViewType)
  /\ Get(config.tableConfig.streamViewType)
       \in {"KEYS_ONLY", "NEW_IMAGE", "OLD_IMAGE", "NEW_AND_OLD_IMAGES"}

\* C1 as stated: with the change-stream flag enabled, construction succeeds
\* if the stream view type is one of the four values and fails if it is
\* missing or anything else; with the flag off the view type causes no
\* failure.
C1_AsStated ==
  (builder = "table" /\ Finished) =>
     /\ (StreamFlag /\ ViewTypeListed) => pc = "done"
     /\ (StreamFlag /\ ~ViewTypeListed) => pc = "failed"
     /\ ~StreamFlag => error \notin StreamErrors

\* C1 (amended): once stream validation has run, a stream-enabled config
\* with one of the four view types has passed it (no stream error is ever
\* raised, and the table gets declared); a stream-enabled config with a
\* missing or other view type has failed with a stream error and nothing
\* declared; with the flag off no stream error is ever raised.
C1_StreamValidation ==
  (builder = "table" /\ pc # "validateStreamConfig") =>
     /\ (StreamFlag /\ ViewTypeListed) =>
           /\ error \notin StreamErrors
           /\ pc # "declareTable" =>
                 (Len(nodes) >= 1 /\ nodes[1].kind = "aws_dynamodb_table")
     /\ (StreamFlag /\ ~ViewTypeListed) =>
           /\ pc = "failed"
           /\ error \in StreamErrors
           /\ error = ErrStreamMissing <=>
                 config.tableConfig.streamViewType \in {None, Some("")}
           /\ nodes = <<>>
     /\ ~StreamFlag => error \notin StreamErrors

C1_Witness ==
  /\ builder = "table" /\ pc = "failed" /\ error = ErrStreamInvalid
  /\ StreamFlag /\ config.tableConfig.streamViewType = Some("BOGUS")

\* -------------------------------------------------------------------------
LogsGiven == builder = "alb" /\ IsSome(config.accessLogs)
ExistingGiven == IsSome(Get(config.accessLogs).existingBucket)
BucketGiven == IsSome(Get(config.accessLogs).bucket)
AccessLogsHandled == pc \in {"alb", "done", "failed"}

\* the caller's prefix, or server-logs/<lowercased name prefix>/alb
EffectivePrefix ==
  IF IsSome(Get(config.accessLogs).prefix)
    THEN Get(Get(config.accessLogs).prefix)
    ELSE <<"s","e","r","v","e","r","-","l","o","g","s","/">>
           \o ToLowerCase(config.prefix) \o <<"/","a","l","b">>

BeginsOrEndsWithSlash(p) == p # <<>> /\ (p[1] = "/" \/ p[Len(p)] = "/")

\* C2: for every access-log config with a valid prefix, construction fails
\* when both existingBucket and bucket are set and when neither is set, and
\* succeeds when exactly one of them is set.
C2_ExactlyOneBucket ==
  (LogsGiven /\ AccessLogsHandled /\ ~BeginsOrEndsWithSlash(EffectivePrefix)) =>
     IF ExistingGiven = BucketGiven THEN pc = "failed" ELSE pc # "failed"

AutoscalingKinds ==
  {"aws_appautoscaling_target", "aws_appautoscaling_policy", "aws_iam_role"}

\* C4: a completed construction of an ON_DEMAND table declares no
\* autoscaling target, no scaling policy and no autoscaling role, whatever
\* capacity specs the config carries.
C4_OnDemandNoAutoscaling ==
  (builder = "table" /\ pc = "done"
     /\ config.capacityMode = Some("PAY_PER_REQUEST")) =>
       \A i \in 1..Len(nodes) : nodes[i].kind \notin AutoscalingKinds

\* -------------------------------------------------------------------------
Dimensions == {ReadCapacity, WriteCapacity}
CapacityOf(c) ==
  IF c = ReadCapacity THEN config.readCapacity ELSE config.writeCapacity
Supplied == {c \in Dimensions : IsSome(CapacityOf(c))}
Indexes ==
  IF IsSome(config.tableConfig.globalSecondaryIndex)
    THEN Get(config.tableConfig.globalSecondaryIndex)
    ELSE <<>>

\* the nodes of one kind and one capacity dimension, in declaration order
ScalingNodes(kind, c) ==
  LET Test(n) == n.kind = kind /\ Includes(n.props.scalableDimension, c)
  IN SelectSeq(nodes, Test)
TargetsOf(c) == ScalingNodes("aws_appautoscaling_target", c)
PoliciesOf(c) == ScalingNodes("aws_appautoscaling_policy", c)
ResourceIdsOf(ns) == [k \in 1..Len(ns) |-> ns[k].props.resourceId]

TableResourceId == <<"t","a","b","l","e","/">> \o TableNameToken
ExpectedResourceIds ==
  <<TableResourceId>> \o
  [k \in 1..Len(Indexes) |->
     TableResourceId \o <<"/","i","n","d","e","x","/">> \o Indexes[k].name]

\* C5: a completed construction with n secondary indexes and d supplied
\* capacity dimensions declares d*(1+n) autoscaling targets and as many
\* scaling policies: per supplied dimension one for table/<tableName> and
\* one per index for table/<tableName>/index/<indexName>; it declares d
\* autoscaling roles and each target uses the role of its dimension.
C5_AutoscalingFanOut ==
  (builder = "table" /\ pc = "done") =>
     LET n == Len(Indexes)
         d == Cardinality(Supplied)
     IN /\ KindCount("aws_appautoscaling_target") = d * (1 + n)
        /\ KindCount("aws_appautoscaling_policy") = d * (1 + n)
        /\ KindCount("aws_iam_role") = d
        /\ \A c \in Dimensions \ Supplied :
              TargetsOf(c) = <<>> /\ PoliciesOf(c) = <<>>
        /\ \A c \in Supplied :
              /\ ResourceIdsOf(TargetsOf(c)) = ExpectedResourceIds
              /\ ResourceIdsOf(PoliciesOf(c)) = ExpectedResourceIds
              /\ Cardinality({i \in 1..Len(nodes) :
                                /\ nodes[i].kind = "aws_iam_role"
                                /\ nodes[i].id = c \o <<"_","r","o","l","e">>}) = 1
              /\ \A k \in 1..Len(TargetsOf(c)) :
                    TargetsOf(c)[k].props.roleArn = RoleArnToken(c)

C5_Witness ==
  /\ builder = "table" /\ pc = "done"
  /\ Cardinality(Supplied) = 2 /\ Len(Indexes) = 2
  /\ KindCount("aws_appautoscaling_target") = 6

\* C6: the table-level target of a supplied dimension takes min and max
\* from the caller's capacity spec; each index target takes its min from
\* that index's own capacity for the same dimension, its max from the
\* caller's spec, and every policy tracks the caller's tracking value.
C6_CapacityBounds ==
  builder = "table" =>
     \A c \in Dimensions :
        LET ts == TargetsOf(c)
            ps == PoliciesOf(c)
        IN /\ \A k \in 1..Len(ts) :
                 /\ ts[k].props.maxCapacity = Get(CapacityOf(c)).max
                 /\ k = 1 => ts[k].props.minCapacity = Get(CapacityOf(c)).min
                 /\ k > 1 =>
                       ts[k].props.minCapacity =
                         (IF c = ReadCapacity
                            THEN Indexes[k - 1].readCapacity
                            ELSE Indexes[k - 1].writeCapacity)
           /\ \A k \in 1..Len(ps) :
                 ps[k].props.targetValue = Get(CapacityOf(c)).tracking

C6_Witness ==
  /\ builder = "table" /\ pc = "done" /\ Cardinality(Supplied) = 2
  /\ Len(Indexes) = 2 /\ Indexes[2].name = <<"b">>
  /\ TargetsOf(WriteCapacity)[3].props.minCapacity = 5
  /\ TargetsOf(WriteCapacity)[3].props.minCapacity # Get(config.writeCapacity).min

\* -------------------------------------------------------------------------
\* reading a field back out of a serialized JSON object
MatchAt(s, pat, i) ==
  /\ i + Len(pat) <= Len(s)
  /\ \A j \in 1..Len(pat) : s[i + j] = pat[j]
JsonKey(key) == <<"\"">> \o key \o <<"\"", ":">>
JsonHas(json, key) == \E i \in 0..Len(json) : MatchAt(json, JsonKey(key), i)
ValueStart(json, key) ==
  (CHOOSE i \in 0..Len(json) :
      /\ MatchAt(json, JsonKey(key), i)
      /\ \A h \in 0..(i - 1) : ~MatchAt(json, JsonKey(key), h))
    + Len(JsonKey(key)) + 1
JsonString(json, key) ==
  LET a == ValueStart(json, key)
      e == CHOOSE j \in (a + 1)..Len(json) :
             /\ json[j] = "\""
             /\ \A h \in (a + 1)..(j - 1) : json[h] # "\""
  IN SubSeq(json, a + 1, e - 1)
JsonNumber(json, key) ==
  LET a == ValueStart(json, key)
      e == CHOOSE j \in a..Len(json) :
             /\ json[j] \in {",", "}"}
             /\ \A h \in a..(j - 1) : json[h] \notin {",", "}"}
  IN SubSeq(json, a, e - 1)

ClusterDone == builder = "cluster" /\ pc = "done"
NodeOfKind(kind) == nodes[CHOOSE i \in 1..Len(nodes) : nodes[i].kind = kind]
SecretString == NodeOfKind("aws_secretsmanager_secret_version").props.secretString
Engine == config.rdsConfig.engine

\* C7: the secret payload has a database_url field exactly when the engine
\* is aurora-mysql, and then it is mysql://<username>:<password>@<host>:
\* <port>/<dbname> over the payload's own username, password, host, port
\* and dbname fields.
C7_DatabaseUrl ==
  ClusterDone =>
     /\ JsonHas(SecretString, K_database_url)
           <=> Engine = Some(<<"a","u","r","o","r","a","-","m","y","s","q","l">>)
     /\ JsonHas(SecretString, K_database_url) =>
           JsonString(SecretString, K_database_url) =
             <<"m","y","s","q","l",":","/","/">>
               \o JsonString(SecretString, K_username) \o <<":">>
               \o JsonString(SecretString, K_password) \o <<"@">>
               \o JsonString(SecretString, K_host) \o <<":">>
               \o JsonNumber(SecretString, K_port) \o <<"/">>
               \o JsonString(SecretString, K_dbname)

C7_Witness ==
  /\ ClusterDone /\ Engine = Some(E_aurora_mysql)
  /\ JsonHas(SecretString, K_database_url)
  /\ JsonString(SecretString, K_username) = ClusterMasterUsernameToken

ExpectedPort ==
  IF IsSome(Engine) /\ Includes(Get(Engine), <<"p","o","s","t","g","r","e","s","q","l">>)
    THEN 5432
    ELSE 3306

\* C8: the resolved port is 5432 when the engine name contains
\* "postgresql" and 3306 otherwise; the security group has exactly one
\* ingress rule, from and to that port, whose only source is the looked-up
\* vpc's cidr block; the secret payload's port is the same port.
C8_ResolvedPort ==
  ClusterDone =>
     LET sg == NodeOfKind("aws_security_group")
     IN /\ Len(sg.props.ingress) = 1
        /\ sg.props.ingress[1].fromPort = ExpectedPort
        /\ sg.props.ingress[1].toPort = ExpectedPort
        /\ sg.props.ingress[1].cidrBlocks = << VpcCidrBlockToken >>
        /\ sg.props.ingress[1].ipv6CidrBlocks = None
        /\ sg.props.ingress[1].prefixListIds = None
        /\ sg.props.ingress[1].securityGroups = None
        /\ nodes[1].kind = "data.aws_vpc" /\ nodes[1].id = <<"v","p","c">>
        /\ JsonNumber(SecretString, K_port) = NumToStr(ExpectedPort)

C8_Witness ==
  /\ ClusterDone /\ Engine = Some(E_aurora_postgresql)
  /\ NodeOfKind("aws_security_group").props.ingress[1].fromPort = 5432
  /\ JsonNumber(SecretString, K_port) = <<"5","4","3","2">>

\* -------------------------------------------------------------------------
TableDeclared ==
  builder = "table" /\ pc \notin {"validateStreamConfig", "declareTable"}
    /\ Len(nodes) >= 1

\* C9: the declared table's billing mode is PAY_PER_REQUEST when
\* capacityMode is ON_DEMAND and PROVISIONED when it is PROVISIONED or
\* absent, whatever billing mode the table config carries; without a read
\* or write capacity spec the table is the only node declared.
C9_BillingMode ==
  /\ TableDeclared =>
        /\ nodes[1].kind = "aws_dynamodb_table"
        /\ nodes[1].props.billingMode =
              (IF config.capacityMode = Some("PAY_PER_REQUEST")
                 THEN Some("PAY_PER_REQUEST")
                 ELSE Some("PROVISIONED"))
  /\ (builder = "table" /\ pc = "done" /\ Supplied = {}) => Len(nodes) = 1

C9_Witness ==
  /\ builder = "table" /\ pc = "done" /\ Supplied = {}
  /\ config.capacityMode = Some(ON_DEMAND)
  /\ config.tableConfig.billingMode = Some("PROVISIONED")
  /\ nodes[1].props.billingMode = Some("PAY_PER_REQUEST")

\* -------------------------------------------------------------------------
BucketKinds ==
  {"data.aws_s3_bucket", "aws_s3_bucket", "data.aws_elb_service_account",
   "data.aws_iam_policy_document", "aws_s3_bucket_policy"}
AlbNode == NodeOfKind("aws_alb")

\* C10: a completed load balancer whose access-log config names an
\* existing bucket declares only a lookup of that bucket; one that names
\* only a bucket to create declares that bucket, the service-account
\* lookup and exactly one bucket policy allowing that account s3:PutObject
\* on the bucket's objects; in both cases access logs are enabled on that
\* bucket; without access-log config none of these nodes is declared.
C10_LogBucket ==
  (builder = "alb" /\ pc = "done") =>
     IF ~IsSome(config.accessLogs)
       THEN /\ \A k \in BucketKinds : KindCount(k) = 0
            /\ AlbNode.props.accessLogs = None
     ELSE IF ExistingGiven
       THEN /\ KindCount("data.aws_s3_bucket") = 1
            /\ \A k \in BucketKinds \ {"data.aws_s3_bucket"} : KindCount(k) = 0
            /\ NodeOfKind("data.aws_s3_bucket").props.bucket =
                  Get(Get(config.accessLogs).existingBucket)
            /\ IsSome(AlbNode.props.accessLogs)
            /\ Get(AlbNode.props.accessLogs).enabled
            /\ Get(AlbNode.props.accessLogs).bucket = ExistingBucketToken
       ELSE /\ KindCount("data.aws_s3_bucket") = 0
            /\ KindCount("aws_s3_bucket") = 1
            /\ KindCount("data.aws_elb_service_account") = 1
            /\ KindCount("data.aws_iam_policy_document") = 1
            /\ KindCount("aws_s3_bucket_policy") = 1
            /\ NodeOfKind("aws_s3_bucket").props.bucket =
                  Get(Get(config.accessLogs).bucket)
            /\ NodeOfKind("aws_s3_bucket_policy").props.bucket = NewBucketToken
            /\ NodeOfKind("aws_s3_bucket_policy").props.policy =
                  LogBucketPolicyDocumentJsonToken
            /\ NodeOfKind("data.aws_iam_policy_document").id =
                  L_iam_log_bucket_policy_document
            /\ LET st == NodeOfKind("data.aws_iam_policy_document").props.statement
               IN /\ Len(st) = 1
                  /\ st[1].effect = "Allow"
                  /\ st[1].actions = << "s3:PutObject" >>
                  /\ st[1].resources =
                        << <<"a","r","n",":","a","w","s",":","s","3",":",":",":">>
                             \o NewBucketToken \o <<"/","*">> >>
                  /\ Len(st[1].principals) = 1
                  /\ st[1].principals[1].type = "AWS"
                  /\ st[1].principals[1].identifiers =
                        << <<"a","r","n",":","a","w","s",":","i","a","m",":",":">>
                             \o ElbServiceAccountIdToken
                             \o <<":","r","o","o","t">> >>
            /\ IsSome(AlbNode.props.accessLogs)
            /\ Get(AlbNode.props.accessLogs).enabled
            /\ Get(AlbNode.props.accessLogs).bucket = NewBucketToken

C10_Witness ==
  /\ builder = "alb" /\ pc = "done" /\ IsSome(config.accessLogs)
  /\ ~ExistingGiven /\ BucketGiven
  /\ KindCount("aws_s3_bucket_policy") = 1
  /\ Get(AlbNode.props.accessLogs).bucket = NewBucketToken
\* -------------------------------------------------------------------------
NoIndexes ==
  config.tableConfig.globalSecondaryIndex \in {None, Some(<<>>)}

\* C11: given a read or write capacity spec and a table config whose index
\* list is absent or empty, construction completes without error and
\* declares for each supplied dimension exactly one autoscaling target and
\* one scaling policy, the table's own.
C11_NoIndexes ==
  (builder = "table" /\ Finished /\ error \notin StreamErrors
     /\ Supplied # {} /\ NoIndexes) =>
       /\ pc = "done" /\ error = NoError
       /\ \A c \in Supplied :
             /\ Len(TargetsOf(c)) = 1 /\ Len(PoliciesOf(c)) = 1
             /\ TargetsOf(c)[1].props.resourceId = TableResourceId
             /\ PoliciesOf(c)[1].props.resourceId = TableResourceId
\* C12: whenever construction has failed with a stream-configuration
\* error, no node at all (table, role, policy, document, attachment,
\* autoscaling target or scaling policy) has been declared.
C12_StreamErrorBeforeNodes ==
  (builder = "table" /\ error \in StreamErrors) =>
     (pc = "failed" /\ nodes = <<>>)

C12_Witness ==
  /\ builder = "table" /\ pc = "failed" /\ error = ErrStreamMissing
  /\ StreamFlag /\ config.tableConfig.streamViewType = None
  /\ Supplied = Dimensions /\ Len(Indexes) = 2
  /\ nodes = <<>>
\* -------------------------------------------------------------------------
IndexNamesDistinct ==
  /\ \A i \in 1..Len(Indexes) : Indexes[i].name # <<>>
  /\ \A i, j \in 1..Len(Indexes) :
        i # j => Indexes[i].name # Indexes[j].name

\* C13: when the secondary indexes have pairwise distinct non-empty names,
\* the local names of all nodes declared under the table construct's scope
\* are pairwise distinct, for any combination of capacity specs.
C13_UniqueNames ==
  (builder = "table" /\ IndexNamesDistinct) =>
     \A i, j \in 1..Len(nodes) : i # j => nodes[i].id # nodes[j].id

C13_Witness ==
  /\ builder = "table" /\ pc = "done" /\ IndexNamesDistinct
  /\ Supplied = Dimensions /\ Len(Indexes) = 2
  /\ Len(nodes) = 23
  /\ Cardinality({nodes[i].id : i \in 1..Len(nodes)}) = 23
\* -------------------------------------------------------------------------
\* the positions before i at which a node with the given id was declared
DeclaredBefore(i, id) == {j \in 1..(i - 1) : nodes[j].id = id}
DependsOnId(n, id) == \E k \in 1..Len(n.dependsOn) : n.dependsOn[k] = id

\* C14: at every step of every builder, each dependency edge of a declared
\* node points to a node declared earlier; the secret depends on the
\* cluster, the secret version on the secret, the role-policy attachment on
\* its role and its policy, every autoscaling target and scaling policy on
\* the table, and every scaling policy also on its target (the node
\* declared just before it).
C14_DependenciesDeclaredEarlier ==
  \A i \in 1..Len(nodes) :
     LET n == nodes[i]
     IN /\ \A k \in 1..Len(n.dependsOn) :
              DeclaredBefore(i, n.dependsOn[k]) # {}
        /\ n.kind = "aws_secretsmanager_secret" =>
              /\ n.dependsOn = << <<"r","d","s","_","c","l","u","s","t","e","r">> >>
              /\ \E j \in DeclaredBefore(i, n.dependsOn[1]) :
                    nodes[j].kind = "aws_rds_cluster"
        /\ n.kind = "aws_secretsmanager_secret_version" =>
              /\ Len(n.dependsOn) = 1
              /\ \E j \in DeclaredBefore(i, n.dependsOn[1]) :
                    nodes[j].kind = "aws_secretsmanager_secret"
        /\ n.kind = "aws_iam_role_policy_attachment" =>
              /\ Len(n.dependsOn) = 2
              /\ \E j \in DeclaredBefore(i, n.dependsOn[1]) :
                    nodes[j].kind = "aws_iam_role"
              /\ \E j \in DeclaredBefore(i, n.dependsOn[2]) :
                    nodes[j].kind = "aws_iam_policy"
        /\ n.kind = "aws_appautoscaling_target" =>
              /\ nodes[1].kind = "aws_dynamodb_table"
              /\ n.dependsOn = << nodes[1].id >>
        /\ n.kind = "aws_appautoscaling_policy" =>
              /\ nodes[1].kind = "aws_dynamodb_table"
              /\ nodes[i - 1].kind = "aws_appautoscaling_target"
              /\ n.dependsOn = << nodes[i - 1].id, nodes[1].id >>
              /\ nodes[i - 1].props.resourceId = n.props.resourceId

C14_Witness ==
  /\ builder = "cluster" /\ pc = "done" /\ Len(nodes) = 6
  /\ nodes[4].kind = "aws_rds_cluster"
  /\ nodes[5].kind = "aws_secretsmanager_secret"
  /\ DependsOnId(nodes[5], nodes[4].id)
  /\ nodes[6].kind = "aws_secretsmanager_secret_version"
  /\ DependsOnId(nodes[6], nodes[5].id)
\* -------------------------------------------------------------------------
\* the port of the declared cluster: the caller's port when supplied,
\* otherwise the engine's default
ClusterPort ==
  LET cluster == NodeOfKind("aws_rds_cluster")
  IN IF IsSome(cluster.props.port) THEN Get(cluster.props.port) ELSE ExpectedPort

\* C15: for every configuration, including one whose cluster config
\* supplies its own port, the port recorded in the secret payload and the
\* port opened by the security group's ingress rule equal the port of the
\* declared cluster.
C15_PortMatchesCluster ==
  ClusterDone =>
     LET sg == NodeOfKind("aws_security_group")
     IN /\ sg.props.ingress[1].fromPort = ClusterPort
        /\ sg.props.ingress[1].toPort = ClusterPort
        /\ JsonNumber(SecretString, K_port) = NumToStr(ClusterPort)
====
